---- MODULE Spec2Model ----
(***************************************************************************)
(* Model of the CAM Automation local API server                            *)
(* (src/services/local-api-server.js): the in-memory document registry,    *)
(* the maker-checker workflow tracker, the tiered legal-form matching rule *)
(* and the audit log.  Node runs each route handler to completion on one   *)
(* thread, so every handler is one atomic action.                          *)
(*                                                                         *)
(* Time is the millisecond clock read by `new Date()`.  A handler reads    *)
(* the clock several times; the model gives all reads of one handler the   *)
(* same instant.                                                           *)
(***************************************************************************)
EXTENDS Integers, Sequences, FiniteSets, TLC

VARIABLES
    now,            \* the wall clock, in milliseconds
    camDocuments,   \* Map documentId -> document, as the sequence of its values in insertion order
    workflows,      \* Map workflowId -> workflow, as the sequence of its values in insertion order
    auditLogs,      \* the audit array
    response,       \* what the last handler sent with res.json / res.status
    matchLog,       \* history: one entry per invocation of mockLegalFormMatching
    statusLog,      \* history: the answers to status requests, kept by SpecProgress only
    userSessions,   \* Map sessionId -> session (id, onboarding, lastActivity)
    issued,         \* how many session ids uuidv4() has generated
    sends           \* the res.json calls made for the last chat request, in order

chatVars == <<userSessions, issued, sends>>

vars == <<now, camDocuments, workflows, auditLogs, response, matchLog, statusLog,
          userSessions, issued, sends>>

----------------------------------------------------------------------------
(* Bounds of the model *)

MaxDocs == 2
MaxWorkflows == 2
MaxAudit == 4
MaxTime == 320000

\* steps by which the clock advances between requests (milliseconds)
TickSteps == {160000}

\* amounts a test fixture may substitute for the extracted loan amount
Amounts == {0, 500000, 999999, 1000000, 1000001, 5000000,
            10000000, 10000001, 15000000}

----------------------------------------------------------------------------
(* JavaScript values *)

\* `undefined` for a string-valued property or parameter
Undefined == "<undefined>"

\* a property holding an array or a time: <<>> while the property is undefined,
\* <<v>> once it holds v
Nothing == <<>>
Just(v) == <<v>>

\* JavaScript truthiness of a string-valued parameter
Truthy(s) == s # Undefined /\ s # ""

\* a || b on strings
OrElse(a, b) == IF Truthy(a) THEN a ELSE b

Min(a, b) == IF a < b THEN a ELSE b

----------------------------------------------------------------------------
(* Request inputs *)

NoFile == [originalname |-> Undefined, size |-> 0]
Files == {[originalname |-> "cam.pdf", size |-> 1024]}

\* Identifiers are uuidv4 strings; the model numbers them 1, 2, ... in the order
\* they are issued.  0 is the missing (falsy) identifier, and the identifier one
\* past the bound is never issued.
NoId == 0
DocIdInputs == 0 .. MaxDocs + 1
WorkflowIdInputs == 1 .. MaxWorkflows + 1
EmailInputs == {Undefined, "alice@bank.com"}
\* bodies of decision requests: a valid decision without comments, a valid one
\* with comments, a value outside {approve, reject}, and a body without a decision
DecisionBodies ==
    {[decision |-> "approve", comments |-> Undefined],
     [decision |-> "reject", comments |-> "insufficient collateral"],
     [decision |-> "maybe", comments |-> Undefined],
     [decision |-> Undefined, comments |-> "insufficient collateral"]}

----------------------------------------------------------------------------
(* Map lookups *)

HasDoc(id) == \E i \in 1 .. Len(camDocuments) : camDocuments[i].documentId = id
DocIndex(id) == CHOOSE i \in 1 .. Len(camDocuments) : camDocuments[i].documentId = id
HasWorkflow(id) == \E i \in 1 .. Len(workflows) : workflows[i].workflowId = id
\* variant: the first stored workflow whatever the id
WorkflowIndex_First(id) == 1
WorkflowIndex(id) == CHOOSE i \in 1 .. Len(workflows) : workflows[i].workflowId = id

----------------------------------------------------------------------------
(* mockProcessCAMDocument: the record built for an uploaded file *)

\* variant: the extracted amount ten times the one the code writes
DefaultLoanAmount_Tenfold == 10 * 5000000

DefaultLoanAmount == 5000000

mockProcessCAMDocument(file, id) ==
    [documentId |-> id,
     fileName |-> file.originalname,
     fileSize |-> file.size,
     uploadedAt |-> now,
     status |-> "processing",
     extractedData |-> [borrower_name |-> "Sample Borrower Corp",
                        loan_amount |-> DefaultLoanAmount,
                        loan_term |-> 60,
                        loan_type |-> "Commercial Real Estate",
                        jurisdiction |-> "New York",
                        collateral |-> "Commercial Property - 123 Business Ave"],
     matchedForms |-> Nothing]

----------------------------------------------------------------------------
(* mockLegalFormMatching: the tiered form-matching rule *)

FORM_A_LARGE ==
    [formId |-> "FORM_A_LARGE",
     formName |-> "Large Commercial Loan Agreement",
     templatePath |-> "templates/large-commercial-loan.docx",
     jurisdiction |-> "New York",
     priority |-> 1,
     requiredApprovals |-> <<"Senior Credit Officer", "Legal Counsel", "Risk Manager">>]

FORM_B_COMPLIANCE ==
    [formId |-> "FORM_B_COMPLIANCE",
     formName |-> "High-Value Compliance Form",
     templatePath |-> "templates/high-value-compliance.docx",
     jurisdiction |-> "Federal",
     priority |-> 2,
     requiredApprovals |-> <<"Compliance Officer">>]

FORM_STANDARD_COMMERCIAL ==
    [formId |-> "FORM_STANDARD_COMMERCIAL",
     formName |-> "Standard Commercial Loan Agreement",
     templatePath |-> "templates/standard-commercial.docx",
     jurisdiction |-> "New York",
     priority |-> 1,
     requiredApprovals |-> <<"Credit Officer", "Legal Review">>]

FORM_SMALL_BUSINESS ==
    [formId |-> "FORM_SMALL_BUSINESS",
     formName |-> "Small Business Loan Agreement",
     templatePath |-> "templates/small-business.docx",
     jurisdiction |-> "New York",
     priority |-> 1,
     requiredApprovals |-> <<"Loan Officer">>]

\* variant: the two thresholds compared with >= instead of >
mockLegalFormMatching_Inclusive(camData) ==
    LET loanAmount == camData.extractedData.loan_amount IN
    IF loanAmount >= 10000000 THEN <<FORM_A_LARGE, FORM_B_COMPLIANCE>>
    ELSE IF loanAmount >= 1000000 THEN <<FORM_STANDARD_COMMERCIAL>>
    ELSE <<FORM_SMALL_BUSINESS>>

\* variant: matchedForms kept in one module-level array that every call pushes to
mockLegalFormMatching_SharedArray(camData) ==
    LET loanAmount == camData.extractedData.loan_amount IN
    (IF matchLog = <<>> THEN <<>> ELSE matchLog[Len(matchLog)].forms) \o
        (IF loanAmount > 10000000 THEN <<FORM_A_LARGE, FORM_B_COMPLIANCE>>
         ELSE IF loanAmount > 1000000 THEN <<FORM_STANDARD_COMMERCIAL>>
         ELSE <<FORM_SMALL_BUSINESS>>)

mockLegalFormMatching(camData) ==
    LET loanAmount == camData.extractedData.loan_amount IN
    IF loanAmount > 10000000 THEN <<FORM_A_LARGE, FORM_B_COMPLIANCE>>
    ELSE IF loanAmount > 1000000 THEN <<FORM_STANDARD_COMMERCIAL>>
    ELSE <<FORM_SMALL_BUSINESS>>

----------------------------------------------------------------------------
(* Initial state: the module-level declarations *)

NoResponse == [route |-> "none", code |-> 0]

Init ==
    /\ now = 0
    /\ camDocuments = <<>>
    /\ workflows = <<>>
    /\ auditLogs = <<>>
    /\ response = NoResponse
    /\ matchLog = <<>>
    /\ statusLog = <<>>
    /\ userSessions = <<>>
    /\ issued = 0
    /\ sends = <<>>

\* variant: the error body sent without .status(404)
NotFound_StatusOmitted(route, error) == [route |-> route, code |-> 200, error |-> error]

\* res.status(404).json({ error })
NotFound(route, error) == [route |-> route, code |-> 404, error |-> error]

\* the clock advances between requests
Tick ==
    /\ \E d \in TickSteps : now + d <= MaxTime /\ now' = now + d
    /\ UNCHANGED <<camDocuments, workflows, auditLogs, response, matchLog, statusLog, chatVars>>

----------------------------------------------------------------------------
(* POST /upload *)

\* variant: the test on req.file left out
MissingFile_Never(file) == FALSE

\* if (!req.file)
MissingFile(file) == file = NoFile

\* variant: the audit entry is pushed before req.file is tested
UploadAs_AuditsFirst(file, doc) ==
    /\ Len(auditLogs) < MaxAudit
    /\ auditLogs' = Append(auditLogs,
           [timestamp |-> now,
            action |-> "DOCUMENT_UPLOAD",
            documentId |-> doc.documentId,
            workflowId |-> NoId,
            userId |-> "demo-user",
            details |-> <<"Uploaded ", file.originalname>>])
    /\ IF MissingFile(file)
       THEN /\ response' = [route |-> "upload", code |-> 400, error |-> "No file uploaded"]
            /\ UNCHANGED <<now, camDocuments, workflows, matchLog, statusLog, chatVars>>
       ELSE /\ Len(camDocuments) < MaxDocs
            /\ camDocuments' = Append(camDocuments, doc)
            /\ response' = [route |-> "upload", code |-> 200,
                            documentId |-> doc.documentId, data |-> doc]
            /\ UNCHANGED <<now, workflows, matchLog, statusLog, chatVars>>

UploadAs(file, doc) ==
    IF MissingFile(file)
    THEN /\ response' = [route |-> "upload", code |-> 400, error |-> "No file uploaded"]
         /\ UNCHANGED <<now, camDocuments, workflows, auditLogs, matchLog, statusLog, chatVars>>
    ELSE /\ Len(camDocuments) < MaxDocs
         /\ Len(auditLogs) < MaxAudit
         /\ camDocuments' = Append(camDocuments, doc)
         /\ auditLogs' = Append(auditLogs,
                [timestamp |-> now,
                 action |-> "DOCUMENT_UPLOAD",
                 documentId |-> doc.documentId,
                 workflowId |-> NoId,
                 userId |-> "demo-user",
                 details |-> <<"Uploaded ", file.originalname>>])
         /\ response' = [route |-> "upload", code |-> 200, documentId |-> doc.documentId, data |-> doc]
         /\ UNCHANGED <<now, workflows, matchLog, statusLog, chatVars>>

UploadReq(file) == UploadAs(file, mockProcessCAMDocument(file, Len(camDocuments) + 1))

Upload == \E file \in Files \cup {NoFile} : UploadReq(file)

----------------------------------------------------------------------------
(* GET /status/:documentId *)

\* variant: Math.ceil in place of Math.floor
Progress_Ceil(doc) == Min(((now - doc.uploadedAt) * 20 + 59999) \div 60000, 100)

\* variant: the percentage wrapped with % 100 in place of the cap
Progress_Wrapped(doc) == (((now - doc.uploadedAt) * 20) \div 60000) % 100

\* Math.min(Math.floor(elapsedMinutes * 20), 100)
Progress(doc) == Min(((now - doc.uploadedAt) * 20) \div 60000, 100)

\* variant: completion declared from half way
IsComplete_Early(progress) == progress >= 50

\* if (progress >= 100)
IsComplete(progress) == progress >= 100

\* variant: the guard on document.matchedForms left out
NeedsMatching_Always(doc) == TRUE

\* if (!document.matchedForms)
NeedsMatching(doc) == doc.matchedForms = Nothing

GetStatusReq(documentId) ==
        IF ~HasDoc(documentId)
        THEN /\ response' = NotFound("status", "Document not found")
             /\ UNCHANGED <<now, camDocuments, workflows, auditLogs, matchLog, chatVars>>
        ELSE LET i == DocIndex(documentId)
                 doc == camDocuments[i]
                 progress == Progress(doc)
                 match == IsComplete(progress) /\ NeedsMatching(doc)
                 forms == mockLegalFormMatching(doc)
                 after == IF match
                          THEN [doc EXCEPT !.matchedForms = Just(forms), !.status = "completed"]
                          ELSE doc
             IN /\ camDocuments' = [camDocuments EXCEPT ![i] = after]
                /\ matchLog' = IF match
                               THEN Append(matchLog,
                                        [documentId |-> documentId,
                                         loan_amount |-> doc.extractedData.loan_amount,
                                         forms |-> forms])
                               ELSE matchLog
                \* { documentId, status, progress, ...document }: the document's own
                \* documentId and status override the two computed before the spread
                /\ response' = [route |-> "status", code |-> 200,
                                progress |-> IF IsComplete(progress) THEN 100 ELSE progress,
                                documentId |-> after.documentId,
                                status |-> after.status,
                                matchedForms |-> after.matchedForms]
                /\ UNCHANGED <<now, workflows, auditLogs, chatVars>>

GetStatus ==
    \E documentId \in DocIdInputs \ {NoId} : GetStatusReq(documentId) /\ UNCHANGED statusLog

----------------------------------------------------------------------------
(* GET /documents *)

Summary(doc) ==
    [documentId |-> doc.documentId,
     fileName |-> doc.fileName,
     status |-> doc.status,
     uploadedAt |-> doc.uploadedAt,
     borrower_name |-> doc.extractedData.borrower_name,
     loan_amount |-> doc.extractedData.loan_amount]

ListDocuments ==
    /\ response' = [route |-> "documents", code |-> 200,
                    documents |-> [i \in 1 .. Len(camDocuments) |-> Summary(camDocuments[i])]]
    /\ UNCHANGED <<now, camDocuments, workflows, auditLogs, matchLog, statusLog, chatVars>>

----------------------------------------------------------------------------
(* POST /workflow/start *)

\* variant: the checker_review step is assigned the request's checkerEmail as it came
NewWorkflow_Unassigned(workflowId, documentId, checkerEmail) ==
    [workflowId |-> workflowId,
     documentId |-> documentId,
     checkerEmail |-> OrElse(checkerEmail, "checker@bank.com"),
     status |-> "pending_review",
     createdAt |-> now,
     steps |-> <<[stepId |-> "maker_submission",
                  status |-> "completed",
                  completedAt |-> Just(now),
                  assignedTo |-> Undefined,
                  decision |-> Undefined,
                  comments |-> Undefined],
                 [stepId |-> "checker_review",
                  status |-> "pending",
                  completedAt |-> Nothing,
                  assignedTo |-> checkerEmail,
                  decision |-> Undefined,
                  comments |-> Undefined]>>,
     decision |-> Undefined,
     comments |-> Undefined,
     decidedAt |-> Nothing]

\* the workflow object built by the handler
NewWorkflow(workflowId, documentId, checkerEmail) ==
    [workflowId |-> workflowId,
     documentId |-> documentId,
     checkerEmail |-> OrElse(checkerEmail, "checker@bank.com"),
     status |-> "pending_review",
     createdAt |-> now,
     steps |-> <<[stepId |-> "maker_submission",
                  status |-> "completed",
                  completedAt |-> Just(now),
                  assignedTo |-> Undefined,
                  decision |-> Undefined,
                  comments |-> Undefined],
                 [stepId |-> "checker_review",
                  status |-> "pending",
                  completedAt |-> Nothing,
                  assignedTo |-> OrElse(checkerEmail, "checker@bank.com"),
                  decision |-> Undefined,
                  comments |-> Undefined]>>,
     decision |-> Undefined,
     comments |-> Undefined,
     decidedAt |-> Nothing]

\* variant: the lookup result is not tested
StartDocumentMissing_Never(documentId) == FALSE

\* variant: the lookup result is tested only while no document is stored
StartDocumentMissing_WhenEmpty(documentId) == Len(camDocuments) = 0

\* if (!document)
StartDocumentMissing(documentId) == ~HasDoc(documentId)

StartWorkflowReq(documentId, checkerEmail) ==
        IF documentId = NoId
        THEN /\ response' = [route |-> "workflow/start", code |-> 400,
                             error |-> "Document ID is required"]
             /\ UNCHANGED <<now, camDocuments, workflows, auditLogs, matchLog, statusLog, chatVars>>
        ELSE IF StartDocumentMissing(documentId)
        THEN /\ response' = NotFound("workflow/start", "Document not found")
             /\ UNCHANGED <<now, camDocuments, workflows, auditLogs, matchLog, statusLog, chatVars>>
        ELSE LET workflowId == Len(workflows) + 1
                 workflow == NewWorkflow(workflowId, documentId, checkerEmail)
             IN /\ Len(workflows) < MaxWorkflows
                /\ Len(auditLogs) < MaxAudit
                /\ workflows' = Append(workflows, workflow)
                /\ auditLogs' = Append(auditLogs,
                       [timestamp |-> now,
                        action |-> "WORKFLOW_START",
                        documentId |-> documentId,
                        workflowId |-> workflowId,
                        userId |-> "demo-user",
                        details |-> <<"Started maker-checker workflow">>])
                /\ response' = [route |-> "workflow/start", code |-> 200,
                                workflowId |-> workflowId, workflow |-> workflow]
                /\ UNCHANGED <<now, camDocuments, matchLog, statusLog, chatVars>>

StartWorkflow ==
    \E documentId \in DocIdInputs, checkerEmail \in EmailInputs :
        StartWorkflowReq(documentId, checkerEmail)

----------------------------------------------------------------------------
(* POST /workflow/:workflowId/decision *)

\* variant: the test is on the decision being given, not on its value
DecidedStatus_Truthy(decision) == IF Truthy(decision) THEN "approved" ELSE "rejected"

\* variant: a value that is neither approve nor reject puts the workflow back in review
DecidedStatus_Reopening(decision) ==
    IF decision = "approve" THEN "approved"
    ELSE IF decision = "reject" THEN "rejected"
    ELSE "pending_review"

\* decision === 'approve' ? 'approved' : 'rejected'
DecidedStatus(decision) == IF decision = "approve" THEN "approved" ELSE "rejected"

\* workflow.steps.find(step => step.stepId === 'checker_review'), as an index; 0 when none
FindStep(steps, stepId) ==
    IF \E k \in 1 .. Len(steps) : steps[k].stepId = stepId
    THEN CHOOSE k \in 1 .. Len(steps) :
            /\ steps[k].stepId = stepId
            /\ \A j \in 1 .. k - 1 : steps[j].stepId # stepId
    ELSE 0

\* variant: the step's status is left as it was
DecideStep_StatusKept(step, decision, comments) ==
    [step EXCEPT !.decision = decision,
                 !.comments = comments,
                 !.completedAt = Just(now)]

\* the checker_review step after the decision
DecideStep(step, decision, comments) ==
    [step EXCEPT !.status = "completed",
                 !.decision = decision,
                 !.comments = comments,
                 !.completedAt = Just(now)]

\* the workflow after the decision
Decide(workflow, decision, comments) ==
    LET k == FindStep(workflow.steps, "checker_review") IN
    [workflow EXCEPT !.status = DecidedStatus(decision),
                     !.decision = decision,
                     !.comments = comments,
                     !.decidedAt = Just(now),
                     !.steps = IF k = 0 THEN @
                               ELSE [@ EXCEPT ![k] = DecideStep(@, decision, comments)]]

DecisionReq(workflowId, body) ==
        LET decision == body.decision
            comments == body.comments
        IN
        IF ~HasWorkflow(workflowId)
        THEN /\ response' = NotFound("workflow/decision", "Workflow not found")
             /\ UNCHANGED <<now, camDocuments, workflows, auditLogs, matchLog, statusLog, chatVars>>
        ELSE LET i == WorkflowIndex(workflowId)
                 workflow == Decide(workflows[i], decision, comments)
             IN /\ Len(auditLogs) < MaxAudit
                /\ workflows' = [workflows EXCEPT ![i] = workflow]
                /\ auditLogs' = Append(auditLogs,
                       [timestamp |-> now,
                        action |-> "WORKFLOW_DECISION",
                        documentId |-> NoId,
                        workflowId |-> workflowId,
                        userId |-> "checker-user",
                        details |-> <<"Workflow ", decision, "d: ",
                                      OrElse(comments, "No comments")>>])
                /\ response' = [route |-> "workflow/decision", code |-> 200,
                                message |-> <<"Workflow ", decision, "d successfully">>,
                                workflow |-> workflow]
                /\ UNCHANGED <<now, camDocuments, matchLog, statusLog, chatVars>>

Decision ==
    \E workflowId \in WorkflowIdInputs, body \in DecisionBodies :
        DecisionReq(workflowId, body)

----------------------------------------------------------------------------
(* GET /audit *)

DefaultLimit == 50
LimitInputs == {DefaultLimit, 2}
ActionInputs == {Undefined, "WORKFLOW_DECISION"}
UserIdInputs == {Undefined, "demo-user"}

\* Array.prototype.sort with (a, b) => new Date(b.timestamp) - new Date(a.timestamp):
\* newest first, entries of equal timestamp in the order they had (the sort is stable)
RECURSIVE SortNewestFirst(_)
SortNewestFirst(logs) ==
    IF Len(logs) <= 1 THEN logs
    ELSE LET h == Head(logs)
             rest == SortNewestFirst(Tail(logs))
             k == Cardinality({j \in 1 .. Len(rest) : rest[j].timestamp > h.timestamp})
         IN SubSeq(rest, 1, k) \o <<h>> \o SubSeq(rest, k + 1, Len(rest))

\* variant: slice(-n), the last n entries
Slice_FromEnd(logs, n) == SubSeq(logs, Len(logs) - Min(n, Len(logs)) + 1, Len(logs))

\* Array.prototype.slice(0, n), n >= 0
Slice(logs, n) == SubSeq(logs, 1, Min(n, Len(logs)))

\* `let filteredLogs = auditLogs`: with no filter given, filteredLogs is still the
\* stored array when sort() sorts it in place
SortsStoredArray(action, userId) == ~Truthy(action) /\ ~Truthy(userId)

\* if (action) filteredLogs = filteredLogs.filter(log => log.action === action)
FilterByAction(logs, action) ==
    IF Truthy(action) THEN SelectSeq(logs, LAMBDA log : log.action = action) ELSE logs

\* variant: the second filter applied to the stored array, not to filteredLogs
FilterByUser_FromStored(logs, userId) ==
    IF Truthy(userId) THEN SelectSeq(auditLogs, LAMBDA log : log.userId = userId) ELSE logs

\* if (userId) filteredLogs = filteredLogs.filter(log => log.userId === userId)
FilterByUser(logs, userId) ==
    IF Truthy(userId) THEN SelectSeq(logs, LAMBDA log : log.userId = userId) ELSE logs

\* filter() returns a new array (SelectSeq); sort() sorts the array it is called on
GetAuditReq(action, userId, limit) ==
        LET byAction == FilterByAction(auditLogs, action)
            byUser == FilterByUser(byAction, userId)
            sorted == SortNewestFirst(byUser)
        IN /\ auditLogs' = IF SortsStoredArray(action, userId) THEN sorted ELSE auditLogs
           /\ response' = [route |-> "audit", code |-> 200,
                           auditLogs |-> Slice(sorted, limit),
                           total |-> Len(auditLogs)]
           /\ UNCHANGED <<now, camDocuments, workflows, matchLog, statusLog, chatVars>>

GetAudit ==
    \E action \in ActionInputs, userId \in UserIdInputs, limit \in LimitInputs :
        GetAuditReq(action, userId, limit)

----------------------------------------------------------------------------
(* The server: any request at any time *)

Next ==
    \/ Tick
    \/ Upload
    \/ GetStatus
    \/ ListDocuments
    \/ StartWorkflow
    \/ Decision
    \/ GetAudit

Spec == Init /\ [][Next]_vars

----------------------------------------------------------------------------
(* The form-matching rule under test: uploads whose extracted loan amount a  *)
(* fixture substitutes, so that every tier and boundary is exercised        *)

UploadFixtureReq(file, amount) ==
    UploadAs(file, [mockProcessCAMDocument(file, Len(camDocuments) + 1)
                        EXCEPT !.extractedData.loan_amount = amount])

UploadFixture == \E file \in Files, amount \in Amounts : UploadFixtureReq(file, amount)

NextMatch ==
    \/ Tick
    \/ UploadFixture
    \/ GetStatus

SpecMatch == Init /\ [][NextMatch]_vars

----------------------------------------------------------------------------
(* The progress rule under test: the clock moves through instants around the *)
(* rule's steps (3000 ms a point) and its cap (300000 ms), and every answer  *)
(* to a status request for a stored document is kept in statusLog           *)

MaxPolls == 3

Instants == {2999, 3000, 160000, 299999, 300000, 320000}

TickTo ==
    /\ \E t \in Instants : t > now /\ now' = t
    /\ UNCHANGED <<camDocuments, workflows, auditLogs, response, matchLog, statusLog, chatVars>>

GetStatusLogged ==
    \E documentId \in DocIdInputs \ {NoId} :
        /\ GetStatusReq(documentId)
        /\ IF response'.code = 200
           THEN /\ Len(statusLog) < MaxPolls
                /\ statusLog' = Append(statusLog,
                        [documentId |-> documentId,
                         at |-> now,
                         progress |-> response'.progress,
                         status |-> response'.status])
           ELSE UNCHANGED statusLog

NextProgress ==
    \/ TickTo
    \/ Upload
    \/ GetStatusLogged

SpecProgress == Init /\ [][NextProgress]_vars

----------------------------------------------------------------------------
(* The audit query under test: the writing routes fill the log, and the query *)
(* comes with every combination of an action filter, a userId filter and a     *)
(* limit, among them pairs of filters no entry meets and limits below the log *)
(* size                                                                        *)

AuditActionInputs == {Undefined, "WORKFLOW_START", "WORKFLOW_DECISION"}
AuditUserIdInputs == {Undefined, "demo-user", "checker-user"}
AuditLimitInputs == {DefaultLimit, 2}

GetAuditAny ==
    \E action \in AuditActionInputs, userId \in AuditUserIdInputs, limit \in AuditLimitInputs :
        GetAuditReq(action, userId, limit)

NextAudit ==
    \/ Tick
    \/ Upload
    \/ StartWorkflow
    \/ Decision
    \/ GetAuditAny

SpecAudit == Init /\ [][NextAudit]_vars

----------------------------------------------------------------------------
(* The quick-start scenarios: files are uploaded through POST /upload as it  *)
(* is, the clock keeps running, and the status is asked for                  *)

NextScenario ==
    \/ Tick
    \/ Upload
    \/ GetStatus

SpecScenario == Init /\ [][NextScenario]_vars /\ WF_vars(Tick)

----------------------------------------------------------------------------
(* UserOnboarding (onboarding.js) *)

NOT_STARTED == "not_started"
GREETING == "greeting"
EXPLAIN_FEATURES == "explain_features"
ASK_ABOUT_NEEDS == "ask_about_needs"
SUGGEST_ACTION == "suggest_action"
COMPLETE == "complete"

\* The texts sent to the chat and to getNextMessage.  A regular expression is
\* modelled by the set of these texts it accepts; all are lower case, so
\* toLowerCase() leaves them as they are.
ChatMessages == {"yes", "upload a new document", "check status", "help", "perfect, great"}
BlankMessages == {"", "   "}

\* String.prototype.trim()
trim(text) == IF text \in BlankMessages THEN "" ELSE text

\* /(yes|sure|ok|yeah|yep|please|go ahead)/i.test(lowerInput)
SaysYes(text) == text \in {"yes"}
\* /(upload|add|new)/i.test(lowerInput)
AsksUpload(text) == text \in {"upload a new document"}
\* /(status|progress|where)/i.test(lowerInput)
AsksStatus(text) == text \in {"check status"}
\* /(workflow|approval|process)/i.test(lowerInput)
AsksWorkflow(text) == text \in {}
\* /(yes|help|need|assist)/i.test(lowerInput)
NeedsHelp(text) == text \in {"yes", "help"}
\* /(help|onboarding|guide|tutorial)/i.test(message.toLowerCase())
AsksOnboarding(text) == text \in {"help"}

\* new UserOnboarding(userId); previousResponses is kept as its length
NewOnboarding(userId) ==
    [userId |-> userId,
     state |-> NOT_STARTED,
     userNeeds |-> <<>>,
     sentiment |-> "neutral",
     previousResponses |-> 0]

updateSentiment(onboarding, sentiment) ==
    [onboarding EXCEPT !.sentiment = sentiment, !.previousResponses = @ + 1]

\* the answers are named by their first words
getResponseForUserNeed(userInput) ==
    IF AsksUpload(userInput) THEN "To upload a document"
    ELSE IF AsksStatus(userInput) THEN "You can check the status"
    ELSE IF AsksWorkflow(userInput) THEN "The approval workflow helps"
    ELSE "I can help you with various tasks"

\* variant: the default branch of ASK_ABOUT_NEEDS taken for every input
HasInput_Never(lowerInput) == FALSE

\* if (lowerInput.trim())
HasInput(lowerInput) == trim(lowerInput) # ""

\* variant: a request for help in state complete starts the tour again
NextStateWhenComplete_Restart(lowerInput) == IF NeedsHelp(lowerInput) THEN GREETING ELSE COMPLETE

\* case COMPLETE: nextState keeps its initial value this.state
NextStateWhenComplete(lowerInput) == COMPLETE

\* getNextMessage(userInput = ''): the onboarding object after the call, and
\* the answer returned
getNextMessage(onboarding, userInput) ==
    LET lowerInput == userInput
        state == onboarding.state
        need == IF AsksUpload(lowerInput) THEN <<"upload_document">>
                ELSE IF AsksStatus(lowerInput) THEN <<"check_status">>
                ELSE IF AsksWorkflow(lowerInput) THEN <<"workflow_help">>
                ELSE <<>>
        nextState ==
            CASE state = NOT_STARTED -> GREETING
              [] state = GREETING ->
                    IF SaysYes(lowerInput) THEN EXPLAIN_FEATURES ELSE ASK_ABOUT_NEEDS
              [] state = EXPLAIN_FEATURES -> SUGGEST_ACTION
              [] state = ASK_ABOUT_NEEDS ->
                    IF HasInput(lowerInput) THEN SUGGEST_ACTION ELSE state
              [] state = SUGGEST_ACTION -> COMPLETE
              [] state = COMPLETE -> NextStateWhenComplete(lowerInput)
        answer ==
            CASE state = NOT_STARTED -> "Welcome to the CAM Automation System"
              [] state = GREETING ->
                    IF SaysYes(lowerInput) THEN "Great! Let me give you a quick overview"
                    ELSE "No problem"
              [] state = EXPLAIN_FEATURES ->
                    IF AsksUpload(lowerInput) THEN "I can help you upload a document"
                    ELSE IF AsksStatus(lowerInput) THEN "I can help you check the status"
                    ELSE IF AsksWorkflow(lowerInput) THEN "I can guide you through the approval"
                    ELSE "I can help with various tasks"
              [] state = ASK_ABOUT_NEEDS ->
                    IF HasInput(lowerInput) THEN getResponseForUserNeed(lowerInput)
                    ELSE "I'm here to help! You can ask me"
              [] state = SUGGEST_ACTION ->
                    IF onboarding.sentiment = "positive" THEN "Great! Is there anything else"
                    ELSE IF onboarding.sentiment = "negative" THEN "I'm sorry to hear that"
                    ELSE "How else can I assist you today?"
              [] state = COMPLETE ->
                    IF NeedsHelp(lowerInput) THEN "I'm here to help! What would you like"
                    ELSE "Feel free to ask"
    IN [onboarding |-> [onboarding EXCEPT
                            !.state = nextState,
                            !.userNeeds = IF state = EXPLAIN_FEATURES THEN @ \o need ELSE @],
        response |-> answer]

isComplete(onboarding) == onboarding.state = COMPLETE

----------------------------------------------------------------------------
(* User sessions and POST /chat *)

MaxIssued == 2
MaxMessages == 5

OneHour == 60 * 60 * 1000

\* session ids are uuidv4 strings; the model numbers them 1, 2, ... in the order
\* they are generated; NoId is a request without sessionId, and NeverIssued an
\* id that uuidv4() never generates
NeverIssued == 0 - 1
SessionIdInputs == NeverIssued .. MaxIssued

Put(map, key, value) ==
    [k \in DOMAIN map \cup {key} |-> IF k = key THEN value ELSE map[k]]
Restrict(map, keys) == [k \in keys |-> map[k]]

\* if (!sessionId || !userSessions.has(sessionId))
SessionMissing(sessionId) == sessionId = NoId \/ sessionId \notin DOMAIN userSessions

\* variant: lastActivity is left as it was
Touch_Forgotten(session) == session

\* session.lastActivity = new Date().toISOString()
Touch(session) == [session EXCEPT !.lastActivity = now]

\* getUserSession(sessionId): the Map and the uuid count after the call, and the
\* session returned
getUserSession(sessionId) ==
    IF SessionMissing(sessionId)
    THEN LET newSessionId == issued + 1
             session == [id |-> newSessionId,
                         onboarding |-> NewOnboarding(newSessionId),
                         lastActivity |-> now]
         IN [userSessions |-> Put(userSessions, newSessionId, session),
             issued |-> issued + 1,
             session |-> session]
    ELSE LET session == Touch(userSessions[sessionId])
         IN [userSessions |-> Put(userSessions, sessionId, session),
             issued |-> issued,
             session |-> session]

\* analyzeSentiment(text) on the texts of the model
analyzeSentiment(text) ==
    IF text = "perfect, great" THEN [sentiment |-> "positive", score |-> 2]
    ELSE [sentiment |-> "neutral", score |-> 0]

\* generateResponse(message, sentiment, score): the branch taken; where the
\* branch picks one of three texts with Math.random(), the list is named
generateResponse(message, sentiment) ==
    IF AsksUpload(message) THEN "You can upload a CAM document"
    ELSE IF message = "help" THEN "I can help you with"
    ELSE IF sentiment = "positive" THEN "positiveResponses"
    ELSE IF sentiment = "negative" THEN "negativeResponses"
    ELSE "neutralResponses"

\* !message || typeof message !== 'string' || message.trim() === ''
MessageMissing(message) == message = Undefined \/ trim(message) = ""

\* one call of res.json: who made it, with which status, and whether a
\* response had been sent before it
Send(by, code, headersSent) == [by |-> by, code |-> code, headersSent |-> headersSent]

\* The statement after the try block (lines 546-552) reads `response`,
\* `sentiment` and `nextAction`, none of which is in scope there: it throws a
\* ReferenceError before its res.json is called.  Express passes the error to
\* the error-handling middleware (lines 581-587), whose res.status(500).json
\* is called when the response of the try block has been sent.
ChatReq(message, sessionId) ==
    IF MessageMissing(message)
    THEN /\ response' = [route |-> "chat", code |-> 400, error |-> "Message is required"]
         /\ sends' = <<Send("handler", 400, FALSE)>>
         /\ UNCHANGED <<now, camDocuments, workflows, auditLogs, matchLog, statusLog,
                        userSessions, issued>>
    ELSE LET got == getUserSession(sessionId)
             analysis == analyzeSentiment(message)
             onboarding == updateSentiment(got.session.onboarding, analysis.sentiment)
             next == IF ~isComplete(onboarding) \/ AsksOnboarding(message)
                     THEN getNextMessage(onboarding, message)
                     ELSE [onboarding |-> onboarding,
                           response |-> generateResponse(message, analysis.sentiment)]
             session == [got.session EXCEPT !.onboarding = next.onboarding]
         IN /\ got.issued <= MaxIssued
            /\ next.onboarding.previousResponses <= MaxMessages
            /\ userSessions' = Put(got.userSessions, session.id, session)
            /\ issued' = got.issued
            /\ response' = [route |-> "chat", code |-> 200,
                            response |-> next.response,
                            sentiment |-> analysis.sentiment,
                            sentimentScore |-> analysis.score,
                            sessionId |-> session.id,
                            timestamp |-> now,
                            onboardingState |-> session.onboarding.state,
                            isOnboardingComplete |-> isComplete(session.onboarding)]
            /\ sends' = <<Send("handler", 200, FALSE), Send("error middleware", 500, TRUE)>>
            /\ UNCHANGED <<now, camDocuments, workflows, auditLogs, matchLog, statusLog>>

\* the session ids a client can send: none, one that was never issued, or one
\* that uuidv4() has returned before (stored still, or removed since)
SentIds == {sessionId \in SessionIdInputs : sessionId <= issued}

Chat ==
    \E message \in ChatMessages \cup BlankMessages \cup {Undefined},
       sessionId \in SentIds :
        ChatReq(message, sessionId)

\* variant: a session is removed from one hour of idleness on
Expired_Inclusive(session, at) == at - session.lastActivity >= OneHour

\* if (now - lastActive > oneHour)
Expired(session, at) == at - session.lastActivity > OneHour

\* the setInterval callback: one run of the loop over userSessions.entries()
Cleanup ==
    /\ userSessions' =
          Restrict(userSessions,
                   {id \in DOMAIN userSessions : ~Expired(userSessions[id], now)})
    /\ UNCHANGED <<now, camDocuments, workflows, auditLogs, response, matchLog, statusLog,
                   issued, sends>>

\* a call of session.onboarding.getNextMessage made outside the chat handler,
\* with an input or with none (userInput = '')
GetNextMessageOn(sessionId, userInput) ==
    /\ sessionId \in DOMAIN userSessions
    /\ userSessions' = [userSessions EXCEPT ![sessionId].onboarding =
                            getNextMessage(@, userInput).onboarding]
    /\ UNCHANGED <<now, camDocuments, workflows, auditLogs, response, matchLog, statusLog,
                   issued, sends>>

DirectInputs == {"", "yes", "help"}

GetNextMessageCall ==
    \E sessionId \in SessionIdInputs, userInput \in DirectInputs :
        GetNextMessageOn(sessionId, userInput)

\* the clock of the sessions: half an hour is the period of the cleanup, one
\* hour the idle time it allows
ChatInstants == {1, 3600000, 3600001}

TickChat ==
    /\ \E t \in ChatInstants : t > now /\ now' = t
    /\ UNCHANGED <<camDocuments, workflows, auditLogs, response, matchLog, statusLog,
                   chatVars>>

\* the server's sessions: chat requests, the clock and the periodic cleanup
NextChat ==
    \/ TickChat
    \/ Chat
    \/ Cleanup

SpecChat == Init /\ [][NextChat]_vars

\* the onboarding objects of sessions that are kept: chat requests and calls of
\* getNextMessage
NextOnboarding ==
    \/ Chat
    \/ GetNextMessageCall

SpecOnboarding == Init /\ [][NextOnboarding]_vars

----------------------------------------------------------------------------
(* Properties *)

DocIds == {camDocuments[i].documentId : i \in 1 .. Len(camDocuments)}
WorkflowIds == {workflows[i].workflowId : i \in 1 .. Len(workflows)}
CheckerStep(workflow) == workflow.steps[FindStep(workflow.steps, "checker_review")]
IsPrefix(s, t) == Len(s) <= Len(t) /\ SubSeq(t, 1, Len(s)) = s

\* C1: in every reachable state every workflow is pending_review exactly when
\* its checker_review step is pending, and approved or rejected exactly when
\* that step is completed; no state shows only one of the two changed.
C1_StatusMatchesCheckerStep ==
    \A i \in 1 .. Len(workflows) :
        LET w == workflows[i] IN
        /\ FindStep(w.steps, "checker_review") # 0
        /\ w.status \in {"pending_review", "approved", "rejected"}
        /\ CheckerStep(w).status \in {"pending", "completed"}
        /\ w.status = "pending_review" <=> CheckerStep(w).status = "pending"
        /\ w.status \in {"approved", "rejected"} <=> CheckerStep(w).status = "completed"

\* C1 witness: a decision has just been recorded on one workflow (approved, step
\* completed) while another workflow is still pending.
C1_Witness ==
    /\ response.route = "workflow/decision" /\ response.code = 200
    /\ \E i, j \in 1 .. Len(workflows) :
        /\ workflows[i].status = "approved"
        /\ CheckerStep(workflows[i]).status = "completed"
        /\ workflows[j].status = "pending_review"
        /\ CheckerStep(workflows[j]).status = "pending"

\* C2: approved and rejected are terminal: once a workflow's status is approved
\* or rejected, no later operation (a further decision included) changes it.
C2_TerminalStatus ==
    [][\A i \in 1 .. Len(workflows) :
          workflows[i].status \in {"approved", "rejected"}
              => workflows'[i].status = workflows[i].status]_vars

\* C3: decision, comments and decidedAt are absent from creation until the
\* first decision on the workflow, and once set none of the three changes.
C3_DecisionSetOnce ==
    /\ [](\A i \in 1 .. Len(workflows) :
            workflows[i].status = "pending_review"
                => /\ workflows[i].decision = Undefined
                   /\ workflows[i].comments = Undefined
                   /\ workflows[i].decidedAt = Nothing)
    /\ [][\A i \in 1 .. Len(workflows) :
            workflows[i].decidedAt # Nothing
                => /\ workflows'[i].decision = workflows[i].decision
                   /\ workflows'[i].comments = workflows[i].comments
                   /\ workflows'[i].decidedAt = workflows[i].decidedAt]_vars

\* C4: a decision request on a stored workflow whose decision is outside
\* {approve, reject} (or missing) fails with an error and leaves the workflows
\* and the audit log unchanged.
C4_InvalidDecisionRejected ==
    [][\A workflowId \in WorkflowIdInputs, body \in DecisionBodies :
          (/\ workflowId \in WorkflowIds
           /\ body.decision \notin {"approve", "reject"}
           /\ DecisionReq(workflowId, body))
              => /\ response'.code \in 400 .. 499
                 /\ workflows' = workflows
                 /\ auditLogs' = auditLogs]_vars

\* C5: the audit log is append-only: the stored sequence before any operation
\* is a prefix of the stored sequence after it.
C5_AuditAppendOnly == [][IsPrefix(auditLogs, auditLogs')]_vars

\* C6: starting a workflow for a documentId that is not stored fails with
\* "Document not found" (404) and leaves workflows, documents and the audit log
\* as they were.
C6_StartUnknownDocument ==
    [][\A documentId \in DocIdInputs \ {NoId}, checkerEmail \in EmailInputs :
          (documentId \notin DocIds /\ StartWorkflowReq(documentId, checkerEmail))
              => /\ response'.route = "workflow/start"
                 /\ response'.code = 404
                 /\ response'.error = "Document not found"
                 /\ workflows' = workflows
                 /\ camDocuments' = camDocuments
                 /\ auditLogs' = auditLogs]_vars

\* C6 witness: with a document and a workflow stored, a start request for an
\* unknown document has just been answered 404.
C6_Witness ==
    /\ response.route = "workflow/start" /\ response.code = 404
    /\ Len(camDocuments) >= 1
    /\ Len(workflows) >= 1
    /\ Len(auditLogs) >= 2

\* the tier the rule prescribes for an amount, written out form by form
IsTierOf(forms, amount) ==
    IF amount > 10000000
    THEN /\ Len(forms) = 2
         /\ forms[1].formId = "FORM_A_LARGE" /\ forms[1].priority = 1
         /\ forms[1].formName = "Large Commercial Loan Agreement"
         /\ forms[2].formId = "FORM_B_COMPLIANCE" /\ forms[2].priority = 2
         /\ forms[2].formName = "High-Value Compliance Form"
    ELSE IF amount > 1000000
    THEN /\ Len(forms) = 1
         /\ forms[1].formId = "FORM_STANDARD_COMMERCIAL"
         /\ forms[1].formName = "Standard Commercial Loan Agreement"
    ELSE /\ Len(forms) = 1
         /\ forms[1].formId = "FORM_SMALL_BUSINESS"
         /\ forms[1].formName = "Small Business Loan Agreement"

\* C7: every invocation of the matching rule returns the tier of its amount:
\* two forms (large commercial, priority 1, then compliance, priority 2) above
\* 10,000,000; the standard-commercial form above 1,000,000 up to 10,000,000;
\* the small-business form up to 1,000,000.  What is stored on the document is
\* that result.
C7_TierBoundaries ==
    /\ \A k \in 1 .. Len(matchLog) : IsTierOf(matchLog[k].forms, matchLog[k].loan_amount)
    /\ \A i \in 1 .. Len(camDocuments) :
          camDocuments[i].matchedForms # Nothing
              => IsTierOf(camDocuments[i].matchedForms[1],
                          camDocuments[i].extractedData.loan_amount)

\* C7 witness: documents at the two sides of a boundary have been matched,
\* 1,000,000 to the small-business form and 10,000,001 to the two-form bundle.
C7_Witness ==
    \E i, j \in 1 .. Len(camDocuments) :
        /\ camDocuments[i].extractedData.loan_amount = 1000000
        /\ camDocuments[i].matchedForms = Just(<<FORM_SMALL_BUSINESS>>)
        /\ camDocuments[j].extractedData.loan_amount = 10000001
        /\ camDocuments[j].matchedForms = Just(<<FORM_A_LARGE, FORM_B_COMPLIANCE>>)

\* C8: the matching rule is total and deterministic: every invocation returned
\* a non-empty sequence, and any two invocations with the same amount returned
\* the same sequence, whatever the clock, the documents and the audit log were.
C8_TotalDeterministic ==
    /\ \A k \in 1 .. Len(matchLog) : Len(matchLog[k].forms) > 0
    /\ \A k, l \in 1 .. Len(matchLog) :
          matchLog[k].loan_amount = matchLog[l].loan_amount
              => matchLog[k].forms = matchLog[l].forms

\* C8 witness: the rule has been invoked twice with the same amount, for two
\* documents, the second time with the first document already completed.
C8_Witness ==
    /\ Len(matchLog) = 2
    /\ matchLog[1].loan_amount = 15000000
    /\ matchLog[2].loan_amount = 15000000
    /\ matchLog[1].documentId # matchLog[2].documentId
    /\ matchLog[2].forms = <<FORM_A_LARGE, FORM_B_COMPLIANCE>>

\* C9: a document has matchedForms only if a status request has observed it
\* completed: its stored status is then completed and five minutes (progress
\* 100) have passed since upload; matchedForms appears only in a step that
\* answers a status request for that document with progress 100.
C9_MatchedOnlyWhenCompleted ==
    /\ [](\A i \in 1 .. Len(camDocuments) :
            camDocuments[i].matchedForms # Nothing
                => /\ camDocuments[i].status = "completed"
                   /\ ((now - camDocuments[i].uploadedAt) * 20) \div 60000 >= 100)
    /\ [][/\ \A i \in 1 .. Len(camDocuments) :
                (camDocuments[i].matchedForms = Nothing
                    /\ camDocuments'[i].matchedForms # Nothing)
                => /\ response'.route = "status" /\ response'.code = 200
                   /\ response'.documentId = camDocuments[i].documentId
                   /\ response'.progress = 100
                   /\ response'.status = "completed"
          /\ \A i \in Len(camDocuments) + 1 .. Len(camDocuments') :
                camDocuments'[i].matchedForms = Nothing]_vars

\* C9 witness: one document is matched and completed while another, uploaded
\* later and polled too, is still without matched forms.
C9_Witness ==
    /\ response.route = "status" /\ response.code = 200 /\ response.progress < 100
    /\ \E i, j \in 1 .. Len(camDocuments) :
        /\ camDocuments[i].matchedForms # Nothing
        /\ camDocuments[j].matchedForms = Nothing
        /\ response.documentId = camDocuments[j].documentId

\* C10: once matchedForms is populated it never changes; a later status request
\* for the record answers with the stored sequence; the matching rule is
\* invoked at most once per record and the stored sequence has no duplicates.
C10_StatusIdempotent ==
    /\ [](\A k, l \in 1 .. Len(matchLog) :
            matchLog[k].documentId = matchLog[l].documentId => k = l)
    /\ [](\A i \in 1 .. Len(camDocuments) :
            camDocuments[i].matchedForms # Nothing
                => \A a, b \in 1 .. Len(camDocuments[i].matchedForms[1]) :
                      camDocuments[i].matchedForms[1][a] = camDocuments[i].matchedForms[1][b]
                          => a = b)
    /\ [][\A i \in 1 .. Len(camDocuments) :
            camDocuments[i].matchedForms # Nothing
                => /\ camDocuments'[i].matchedForms = camDocuments[i].matchedForms
                   /\ GetStatusReq(camDocuments[i].documentId)
                          => /\ response'.matchedForms = camDocuments[i].matchedForms
                             /\ matchLog' = matchLog]_vars

\* C10 witness: both documents were matched, the first before the second, and
\* the last answer is a status answer for the first: a status request made
\* after that record's completion had been observed.
C10_Witness ==
    /\ Len(matchLog) = 2
    /\ response.route = "status" /\ response.code = 200
    /\ response.documentId = matchLog[1].documentId
    /\ response.documentId # matchLog[2].documentId
    /\ response.matchedForms = Just(<<FORM_STANDARD_COMMERCIAL>>)

\* the stored record a status answer was given for
DocOf(documentId) == camDocuments[DocIndex(documentId)]

\* p is min(floor(elapsedMinutes * 20), 100) for elapsed milliseconds: twenty
\* points a minute is one point every 3000 ms
IsProgressOf(p, elapsed) ==
    \/ p \in 0 .. 99 /\ p * 3000 <= elapsed /\ elapsed < (p + 1) * 3000
    \/ p = 100 /\ elapsed >= 300000

\* C11: every status answer for a known record reports the progress
\* min(floor(elapsedMinutes * 20), 100) of the time since uploadedAt, and
\* reports completed exactly when that progress is 100, processing otherwise.
C11_ProgressRule ==
    \A k \in 1 .. Len(statusLog) :
        /\ IsProgressOf(statusLog[k].progress,
                        statusLog[k].at - DocOf(statusLog[k].documentId).uploadedAt)
        /\ statusLog[k].status = (IF statusLog[k].progress = 100 THEN "completed"
                                                                 ELSE "processing")

\* C11 witness: one record was asked for just below a step of the rule, just
\* below the cap and at the cap: 0 and 99 while processing, 100 when completed.
C11_Witness ==
    /\ Len(statusLog) = 3
    /\ statusLog[1].progress = 0 /\ statusLog[1].at > 0
    /\ statusLog[2].progress = 99 /\ statusLog[2].status = "processing"
    /\ statusLog[3].progress = 100 /\ statusLog[3].status = "completed"

\* C12: for one record the progress reported by successive status requests
\* never decreases and never exceeds 100; after an answer of 100 every later
\* answer is 100.
C12_ProgressMonotone ==
    \A k, l \in 1 .. Len(statusLog) :
        (k < l /\ statusLog[k].documentId = statusLog[l].documentId)
            => /\ statusLog[k].at <= statusLog[l].at
               /\ statusLog[k].progress <= statusLog[l].progress
               /\ statusLog[l].progress <= 100
               /\ statusLog[k].progress = 100 => statusLog[l].progress = 100

\* C12 witness: one record answered 99, then 100, then 100 again at a later
\* time, past the cap.
C12_Witness ==
    /\ Len(statusLog) = 3
    /\ statusLog[1].documentId = statusLog[2].documentId
    /\ statusLog[2].documentId = statusLog[3].documentId
    /\ statusLog[1].progress = 99
    /\ statusLog[2].progress = 100
    /\ statusLog[3].progress = 100 /\ statusLog[3].at > statusLog[2].at

\* the template string contains the text
Contains(details, text) == \E a \in 1 .. Len(details) : details[a] = text

\* C13: a successful decision leaves the workflow approved for approve and
\* rejected for reject, with decidedAt set; the checker_review step is
\* completed and carries the workflow's decision and comments; exactly one
\* audit entry is appended, a WORKFLOW_DECISION for that workflow whose details
\* contain the decision and the comments, or "No comments" when none came.
C13_DecisionEffect ==
    [][\A workflowId \in WorkflowIds, body \in DecisionBodies :
        DecisionReq(workflowId, body)
            => LET after == workflows'[WorkflowIndex(workflowId)]
                   entry == auditLogs'[Len(auditLogs')]
               IN /\ response'.code = 200
                  /\ body.decision = "approve" => after.status = "approved"
                  /\ body.decision = "reject" => after.status = "rejected"
                  /\ after.decidedAt = Just(now)
                  /\ after.decision = body.decision
                  /\ after.comments = body.comments
                  /\ CheckerStep(after).status = "completed"
                  /\ CheckerStep(after).decision = after.decision
                  /\ CheckerStep(after).comments = after.comments
                  /\ Len(auditLogs') = Len(auditLogs) + 1
                  /\ SubSeq(auditLogs', 1, Len(auditLogs)) = auditLogs
                  /\ entry.action = "WORKFLOW_DECISION"
                  /\ entry.workflowId = workflowId
                  /\ Contains(entry.details, body.decision)
                  /\ Contains(entry.details,
                              IF Truthy(body.comments) THEN body.comments
                                                       ELSE "No comments")]_vars

\* C13 witness: a workflow was approved without comments and then rejected
\* with comments; both audit entries are in the log and the answer carries the
\* rejected workflow.
C13_Witness ==
    /\ response.route = "workflow/decision" /\ response.code = 200
    /\ response.workflow.status = "rejected"
    /\ response.workflow.decidedAt # Nothing
    /\ auditLogs[Len(auditLogs)].action = "WORKFLOW_DECISION"
    /\ auditLogs[Len(auditLogs)].workflowId = response.workflow.workflowId
    /\ Contains(auditLogs[Len(auditLogs)].details, "insufficient collateral")
    /\ \E k \in 1 .. Len(auditLogs) - 1 :
          /\ auditLogs[k].action = "WORKFLOW_DECISION"
          /\ Contains(auditLogs[k].details, "approve")
          /\ Contains(auditLogs[k].details, "No comments")

\* a workflow has the two steps maker_submission, checker_review, in this order
HasTwoSteps(workflow) ==
    /\ Len(workflow.steps) = 2
    /\ workflow.steps[1].stepId = "maker_submission"
    /\ workflow.steps[2].stepId = "checker_review"

\* C14: a successful start stores one new workflow with an id no stored
\* workflow has, the request's documentId, status pending_review, the
\* request's checkerEmail or checker@bank.com, and the two steps
\* maker_submission (completed) and checker_review (pending, assigned to that
\* checkerEmail); every stored workflow has these two steps in this order in
\* every state, and workflow ids are distinct.
C14_StartCreatesWorkflow ==
    /\ [](\A i, j \in 1 .. Len(workflows) :
            /\ HasTwoSteps(workflows[i])
            /\ workflows[i].workflowId = workflows[j].workflowId => i = j)
    /\ [][\A documentId \in DocIds, checkerEmail \in EmailInputs :
            StartWorkflowReq(documentId, checkerEmail)
                => LET new == workflows'[Len(workflows')]
                   IN /\ response'.code = 200
                      /\ Len(workflows') = Len(workflows) + 1
                      /\ SubSeq(workflows', 1, Len(workflows)) = workflows
                      /\ new.workflowId \notin WorkflowIds
                      /\ new.workflowId = response'.workflowId
                      /\ new.documentId = documentId
                      /\ new.status = "pending_review"
                      /\ new.checkerEmail = (IF checkerEmail = Undefined
                                                THEN "checker@bank.com"
                                                ELSE checkerEmail)
                      /\ HasTwoSteps(new)
                      /\ new.steps[1].status = "completed"
                      /\ new.steps[2].status = "pending"
                      /\ new.steps[2].assignedTo = new.checkerEmail]_vars

\* C14 witness: two workflows are stored, one started without a checkerEmail
\* and since decided, one started for alice@bank.com in the last request.
C14_Witness ==
    /\ response.route = "workflow/start" /\ response.code = 200
    /\ Len(workflows) = 2
    /\ workflows[1].checkerEmail = "checker@bank.com"
    /\ workflows[1].status = "approved"
    /\ workflows[2].checkerEmail = "alice@bank.com"
    /\ workflows[2].steps[2].assignedTo = "alice@bank.com"

\* C15: a workflow that a decision succeeded on is not in pending_review and
\* its checker_review step is not pending, in that state and in every later
\* one: a status other than pending_review, and a step status other than
\* pending, stay so through every request.
C15_NeverBackToPending ==
    /\ [](\A k \in 1 .. Len(auditLogs) :
            auditLogs[k].action = "WORKFLOW_DECISION"
                => LET workflow == workflows[WorkflowIndex(auditLogs[k].workflowId)]
                   IN /\ workflow.status # "pending_review"
                      /\ CheckerStep(workflow).status # "pending")
    /\ [][\A i \in 1 .. Len(workflows) :
            /\ workflows[i].status # "pending_review"
                   => workflows'[i].status # "pending_review"
            /\ CheckerStep(workflows[i]).status # "pending"
                   => CheckerStep(workflows'[i]).status # "pending"]_vars

\* C15 witness: a workflow was approved and then sent a decision that is
\* neither approve nor reject, and the audit log was queried after that.
C15_Witness ==
    /\ response.route = "audit"
    /\ \E k, l \in 1 .. Len(auditLogs) :
          /\ k # l
          /\ auditLogs[k].action = "WORKFLOW_DECISION"
          /\ auditLogs[l].action = "WORKFLOW_DECISION"
          /\ auditLogs[k].workflowId = auditLogs[l].workflowId
          /\ Contains(auditLogs[k].details, "approve")
          /\ Contains(auditLogs[l].details, "maybe")
          /\ auditLogs[k].timestamp < auditLogs[l].timestamp

\* C16: a status request for a document id that is not stored and a decision
\* for a workflow id that is not stored are each answered 404 with a not-found
\* error, and the documents, the workflows and the audit log are unchanged by
\* the request; no request answered 404 changes them.
C16_UnknownIdsNotFound ==
    [][/\ \A documentId \in (DocIdInputs \ {NoId}) \ DocIds :
            GetStatusReq(documentId)
                => /\ response' = [route |-> "status", code |-> 404,
                                   error |-> "Document not found"]
                   /\ UNCHANGED <<camDocuments, workflows, auditLogs>>
       /\ \A workflowId \in WorkflowIdInputs \ WorkflowIds, body \in DecisionBodies :
            DecisionReq(workflowId, body)
                => /\ response' = [route |-> "workflow/decision", code |-> 404,
                                   error |-> "Workflow not found"]
                   /\ UNCHANGED <<camDocuments, workflows, auditLogs>>
       /\ response'.code = 404 => UNCHANGED <<camDocuments, workflows, auditLogs>>]_vars

\* C16 witness: with a document, a decided workflow and their audit entries
\* stored, a decision for a workflow id that was never issued is answered 404.
C16_Witness ==
    /\ response = [route |-> "workflow/decision", code |-> 404,
                   error |-> "Workflow not found"]
    /\ Len(camDocuments) >= 1
    /\ \E i \in 1 .. Len(workflows) : workflows[i].status = "approved"
    /\ Len(auditLogs) >= 3

\* C17: an upload request without a file is answered 400 "No file uploaded";
\* it stores no document and writes no audit entry: the documents and the
\* audit log are unchanged, as they are by every request answered 400.
C17_UploadWithoutFile ==
    [][/\ UploadReq(NoFile)
            => /\ response' = [route |-> "upload", code |-> 400,
                               error |-> "No file uploaded"]
               /\ UNCHANGED <<camDocuments, auditLogs>>
       /\ response'.code = 400 => UNCHANGED <<camDocuments, auditLogs>>]_vars

\* C17 witness: an upload without a file is refused after an upload with a
\* file was stored and audited.
C17_Witness ==
    /\ response = [route |-> "upload", code |-> 400, error |-> "No file uploaded"]
    /\ Len(camDocuments) = 1
    /\ Len(auditLogs) = 1
    /\ auditLogs[1].action = "DOCUMENT_UPLOAD"

\* the number of audit entries of one action
CountAction(logs, action) ==
    Cardinality({k \in 1 .. Len(logs) : logs[k].action = action})

\* C18: in every state there is exactly one DOCUMENT_UPLOAD entry per stored
\* document, carrying its documentId, and exactly one WORKFLOW_START entry per
\* stored workflow, carrying its workflowId and documentId; every
\* WORKFLOW_DECISION entry carries the id of a stored workflow, and their
\* number grows by one with each successful decision and changes with nothing
\* else; a request that is refused adds no entry.
C18_AuditedExactlyOnce ==
    /\ [](/\ CountAction(auditLogs, "DOCUMENT_UPLOAD") = Len(camDocuments)
          /\ CountAction(auditLogs, "WORKFLOW_START") = Len(workflows)
          /\ \A i \in 1 .. Len(camDocuments) :
                \E k \in 1 .. Len(auditLogs) :
                    /\ auditLogs[k].action = "DOCUMENT_UPLOAD"
                    /\ auditLogs[k].documentId = camDocuments[i].documentId
          /\ \A i \in 1 .. Len(workflows) :
                \E k \in 1 .. Len(auditLogs) :
                    /\ auditLogs[k].action = "WORKFLOW_START"
                    /\ auditLogs[k].workflowId = workflows[i].workflowId
                    /\ auditLogs[k].documentId = workflows[i].documentId
          /\ \A k \in 1 .. Len(auditLogs) :
                auditLogs[k].action = "WORKFLOW_DECISION"
                    => auditLogs[k].workflowId \in WorkflowIds)
    /\ [][/\ CountAction(auditLogs', "WORKFLOW_DECISION") =
               CountAction(auditLogs, "WORKFLOW_DECISION") +
               (IF \E workflowId \in WorkflowIds, body \in DecisionBodies :
                       DecisionReq(workflowId, body)
                THEN 1 ELSE 0)
          /\ response'.code # 200 => Len(auditLogs') = Len(auditLogs)]_vars

\* C18 witness: one upload, one start and two decisions are in the log, four
\* entries for four successful requests, and the last request was refused.
C18_Witness ==
    /\ response.code \in {400, 404}
    /\ Len(auditLogs) = 4
    /\ CountAction(auditLogs, "DOCUMENT_UPLOAD") = 1
    /\ CountAction(auditLogs, "WORKFLOW_START") = 1
    /\ CountAction(auditLogs, "WORKFLOW_DECISION") = 2

\* the entry passes the filters that were given
Matches(log, action, userId) ==
    /\ action # Undefined => log.action = action
    /\ userId # Undefined => log.userId = userId

\* the positions of the stored entries that pass the filters
Matching(action, userId) ==
    {k \in 1 .. Len(auditLogs) : Matches(auditLogs[k], action, userId)}

\* how many times an entry occurs in a sequence of entries
CountOf(logs, log) == Cardinality({k \in 1 .. Len(logs) : logs[k] = log})

\* C19: the answer of an audit query is sorted by timestamp, newest first, and
\* is the first `limit` entries of that order (50 when no limit is given): it
\* has min(limit, number of entries passing the filters) entries, each a
\* stored entry passing the filters, and no entry left out is newer than the
\* oldest entry returned.
C19_NewestFirstTruncated ==
    [][response'.route = "audit" =>
       \A action \in AuditActionInputs, userId \in AuditUserIdInputs,
         limit \in AuditLimitInputs :
        GetAuditReq(action, userId, limit)
            => LET result == response'.auditLogs
               IN /\ \A a, b \in 1 .. Len(result) :
                        a < b => result[a].timestamp >= result[b].timestamp
                  /\ Len(result) = Min(limit, Cardinality(Matching(action, userId)))
                  /\ \A a \in 1 .. Len(result) :
                        /\ Matches(result[a], action, userId)
                        /\ CountOf(result, result[a]) <= CountOf(auditLogs, result[a])
                  /\ \A k \in Matching(action, userId) :
                        CountOf(result, auditLogs[k]) < CountOf(auditLogs, auditLogs[k])
                            => /\ Len(result) = limit
                               /\ auditLogs[k].timestamp <= result[Len(result)].timestamp]_vars

\* C19 witness: three entries written at 0, 160000 and 320000 ms are stored
\* and a query with limit 2 answered the entry of 320000 then that of 160000;
\* the two differ in action and in userId, so no filter was given.
C19_Witness ==
    /\ response.route = "audit"
    /\ response.total = 3
    /\ Len(response.auditLogs) = 2
    /\ response.auditLogs[1].timestamp = 320000
    /\ response.auditLogs[1].action = "WORKFLOW_DECISION"
    /\ response.auditLogs[2].timestamp = 160000
    /\ response.auditLogs[2].action = "WORKFLOW_START"
    /\ \E k \in 1 .. Len(auditLogs) : auditLogs[k].timestamp = 0

\* C20: the filters of an audit query are conjunctive: every returned entry
\* has the action asked for, when one is, and the userId asked for, when one
\* is; with a limit that truncates nothing the answer holds every stored entry
\* that passes the given filters, as often as it is stored, and no other;
\* without filters that is every stored entry.
C20_FiltersConjunctive ==
    [][response'.route = "audit" =>
       \A action \in AuditActionInputs, userId \in AuditUserIdInputs,
         limit \in AuditLimitInputs :
        GetAuditReq(action, userId, limit)
            => LET result == response'.auditLogs
               IN /\ \A a \in 1 .. Len(result) : Matches(result[a], action, userId)
                  /\ limit >= Len(auditLogs)
                        => /\ Len(result) = Cardinality(Matching(action, userId))
                           /\ \A k \in 1 .. Len(auditLogs) :
                                 CountOf(result, auditLogs[k]) =
                                     (IF Matches(auditLogs[k], action, userId)
                                      THEN CountOf(auditLogs, auditLogs[k])
                                      ELSE 0)
                  /\ (action = Undefined /\ userId = Undefined /\ limit >= Len(auditLogs))
                        => Len(result) = Len(auditLogs)]_vars

\* C20 witness: entries of all three actions, by demo-user and by
\* checker-user, are stored, and a query answered no entry: each of its two
\* filters is met by a stored entry, the two together by none.
C20_Witness ==
    /\ response.route = "audit"
    /\ response.auditLogs = <<>>
    /\ CountAction(auditLogs, "DOCUMENT_UPLOAD") >= 1
    /\ CountAction(auditLogs, "WORKFLOW_START") >= 1
    /\ CountAction(auditLogs, "WORKFLOW_DECISION") >= 1

\* the request body of the end-to-end scenario
RejectBody == [decision |-> "reject", comments |-> "insufficient collateral"]

\* C21: end to end: when a document was uploaded (extracted amount 5,000,000),
\* its status was requested after progress reached 100, a workflow was started
\* on it and the decision reject "insufficient collateral" is made, then the
\* document's matchedForms is the single standard commercial form, the
\* workflow is rejected, and the audit log holds a DOCUMENT_UPLOAD entry with
\* the document's id and a WORKFLOW_DECISION entry with the workflow's id.
C21_EndToEnd ==
    [][\A workflowId \in WorkflowIds :
        LET i == WorkflowIndex(workflowId)
            d == DocIndex(workflows[i].documentId)
        IN (/\ camDocuments[d].matchedForms # Nothing
            /\ DecisionReq(workflowId, RejectBody))
            => /\ camDocuments'[d].extractedData.loan_amount = 5000000
               /\ camDocuments'[d].status = "completed"
               /\ camDocuments'[d].matchedForms = Just(<<FORM_STANDARD_COMMERCIAL>>)
               /\ workflows'[i].status = "rejected"
               /\ workflows'[i].comments = "insufficient collateral"
               /\ \E k \in 1 .. Len(auditLogs') :
                     /\ auditLogs'[k].action = "DOCUMENT_UPLOAD"
                     /\ auditLogs'[k].documentId = camDocuments'[d].documentId
               /\ \E k \in 1 .. Len(auditLogs') :
                     /\ auditLogs'[k].action = "WORKFLOW_DECISION"
                     /\ auditLogs'[k].workflowId = workflowId
                     /\ Contains(auditLogs'[k].details, "reject")
                     /\ Contains(auditLogs'[k].details, "insufficient collateral")]_vars

\* C21 witness: the scenario was run in its order: upload, status after
\* completion, start, one decision; the answer carries the rejected workflow.
C21_Witness ==
    /\ response.route = "workflow/decision" /\ response.code = 200
    /\ response.workflow.status = "rejected"
    /\ response.workflow.comments = "insufficient collateral"
    /\ Len(camDocuments) = 1 /\ Len(workflows) = 1 /\ Len(auditLogs) = 3
    /\ camDocuments[1].matchedForms = Just(<<FORM_STANDARD_COMMERCIAL>>)
    /\ workflows[1].documentId = camDocuments[1].documentId
    /\ auditLogs[1].action = "DOCUMENT_UPLOAD"
    /\ auditLogs[2].action = "WORKFLOW_START"
    /\ auditLogs[2].timestamp > camDocuments[1].uploadedAt
    /\ auditLogs[3].action = "WORKFLOW_DECISION"

\* C22: the answer of a list request has one summary per stored document, in
\* the stored order, and the status of each summary is the derived status:
\* completed exactly when a status request for the record at the same moment
\* would report completed, that is when its progress has reached 100, whether
\* or not a status request was ever made for it.
C22_ListStatusDerived ==
    [][ListDocuments
        => /\ Len(response'.documents) = Len(camDocuments)
           /\ \A i \in 1 .. Len(camDocuments) :
                 /\ response'.documents[i].documentId = camDocuments[i].documentId
                 /\ response'.documents[i].status =
                        (IF IsProgressOf(100, now - camDocuments[i].uploadedAt)
                         THEN "completed" ELSE "processing")]_vars

\* the fields of a document that a status request leaves alone
FixedFields(doc) ==
    [documentId |-> doc.documentId,
     fileName |-> doc.fileName,
     fileSize |-> doc.fileSize,
     uploadedAt |-> doc.uploadedAt,
     extractedData |-> doc.extractedData]

\* C23: upload, status and list requests change no workflow; start and
\* decision requests change no document; a status request for one document
\* stores and removes no document, changes no other document, and of that
\* document changes nothing but matchedForms and status; a decision on one
\* workflow stores and removes no workflow and changes no other workflow.
C23_FrameEffects ==
    [][/\ response'.route \in {"upload", "status", "documents"}
            => workflows' = workflows
       /\ response'.route \in {"workflow/start", "workflow/decision"}
            => camDocuments' = camDocuments
       /\ response'.route = "status"
            => \A documentId \in DocIdInputs \ {NoId} :
                 GetStatusReq(documentId)
                     => /\ Len(camDocuments') = Len(camDocuments)
                        /\ \A i \in 1 .. Len(camDocuments) :
                              /\ FixedFields(camDocuments'[i]) = FixedFields(camDocuments[i])
                              /\ camDocuments[i].documentId # documentId
                                    => camDocuments'[i] = camDocuments[i]
       /\ response'.route = "workflow/decision"
            => \A workflowId \in WorkflowIdInputs, body \in DecisionBodies :
                 DecisionReq(workflowId, body)
                     => /\ Len(workflows') = Len(workflows)
                        /\ \A i \in 1 .. Len(workflows) :
                              workflows[i].workflowId # workflowId
                                  => workflows'[i] = workflows[i]]_vars

\* C23 witness: of two documents the first was matched by a status request and
\* the second, uploaded later, was not; a workflow on the second was decided.
C23_Witness ==
    /\ response.route = "workflow/decision" /\ response.code = 200
    /\ Len(camDocuments) = 2 /\ Len(workflows) = 1
    /\ camDocuments[1].matchedForms # Nothing
    /\ camDocuments[2].matchedForms = Nothing
    /\ camDocuments[2].status = "processing"
    /\ workflows[1].documentId = camDocuments[2].documentId
    /\ workflows[1].status = "rejected"

\* a stored document was matched
SomeMatched == \E i \in 1 .. Len(camDocuments) : camDocuments[i].matchedForms # Nothing

\* Scenario A: a document of loan amount 500,000 matched to the Small Business
\* Loan Agreement
ScenarioA ==
    \E i \in 1 .. Len(camDocuments) :
        /\ camDocuments[i].extractedData.loan_amount = 500000
        /\ camDocuments[i].matchedForms = Just(<<FORM_SMALL_BUSINESS>>)

\* Scenario B: a document of loan amount 15,000,000 matched to several forms,
\* the compliance form among them
ScenarioB ==
    \E i \in 1 .. Len(camDocuments) :
        /\ camDocuments[i].extractedData.loan_amount = 15000000
        /\ camDocuments[i].matchedForms # Nothing
        /\ Len(camDocuments[i].matchedForms[1]) > 1
        /\ \E k \in 1 .. Len(camDocuments[i].matchedForms[1]) :
              camDocuments[i].matchedForms[1][k] = FORM_B_COMPLIANCE

\* every stored document has the loan amount mockProcessCAMDocument writes,
\* and a matched one has the single standard commercial form: neither
\* scenario state is reachable through POST /upload
LoanAmountIsHardcoded ==
    /\ ~ScenarioA
    /\ ~ScenarioB
    /\ \A i \in 1 .. Len(camDocuments) :
          /\ camDocuments[i].extractedData.loan_amount = 5000000
          /\ camDocuments[i].matchedForms \in {Nothing, Just(<<FORM_STANDARD_COMMERCIAL>>)}

\* C24: the tier matched for an uploaded document follows the loan amount the
\* quick-start scenarios say the system simulates: where uploaded documents
\* come to be matched, a document of amount 500,000 matched to the Small
\* Business Loan Agreement is reached (Scenario A), and a document of amount
\* 15,000,000 matched to several forms with the compliance form among them is
\* reached (Scenario B).
C24_ScenariosReached == <>SomeMatched => (<>ScenarioA /\ <>ScenarioB)

\* C25: in every state every workflow's documentId is the id of a stored
\* document, every documentId and every workflowId carried by an audit entry
\* is the id of a stored record, and the ids of the documents, and of the
\* workflows, are pairwise distinct; no step removes a document or a workflow
\* or changes the id of one.
C25_ReferentialIntegrity ==
    /\ [](/\ \A i \in 1 .. Len(workflows) : workflows[i].documentId \in DocIds
          /\ \A k \in 1 .. Len(auditLogs) :
                /\ auditLogs[k].documentId # NoId => auditLogs[k].documentId \in DocIds
                /\ auditLogs[k].workflowId # NoId => auditLogs[k].workflowId \in WorkflowIds
          /\ Cardinality(DocIds) = Len(camDocuments)
          /\ Cardinality(WorkflowIds) = Len(workflows))
    /\ [][/\ Len(camDocuments') >= Len(camDocuments)
          /\ Len(workflows') >= Len(workflows)
          /\ \A i \in 1 .. Len(camDocuments) :
                camDocuments'[i].documentId = camDocuments[i].documentId
          /\ \A i \in 1 .. Len(workflows) :
                /\ workflows'[i].workflowId = workflows[i].workflowId
                /\ workflows'[i].documentId = workflows[i].documentId]_vars

\* C25 witness: two documents and a workflow on each are stored, all four
\* audited, and a start request for a document id that is not stored was
\* refused.
C25_Witness ==
    /\ response = [route |-> "workflow/start", code |-> 404, error |-> "Document not found"]
    /\ Len(camDocuments) = 2 /\ Len(workflows) = 2 /\ Len(auditLogs) = 4
    /\ workflows[1].documentId # workflows[2].documentId

\* the place of an onboarding state in the flow
Rank(state) ==
    CASE state = NOT_STARTED -> 0
      [] state = GREETING -> 1
      [] state = EXPLAIN_FEATURES -> 2
      [] state = ASK_ABOUT_NEEDS -> 2
      [] state = SUGGEST_ACTION -> 3
      [] state = COMPLETE -> 4

\* C26: the onboarding state of a session only moves forward along
\* not_started, greeting, explain_features or ask_about_needs, suggest_action,
\* complete: no step takes it to an earlier state or from one of
\* explain_features and ask_about_needs to the other, so the two are never
\* both visited; and a session that is complete stays complete through every
\* later message, help and yes included.
C26_OnboardingForward ==
    [][\A id \in DOMAIN userSessions :
        LET before == userSessions[id].onboarding.state
            after == userSessions'[id].onboarding.state
        IN /\ id \in DOMAIN userSessions'
           /\ Rank(after) >= Rank(before)
           /\ Rank(after) = Rank(before) => after = before
           /\ before = COMPLETE => after = COMPLETE]_vars

\* C26 witness: a session that was complete got the message help, was answered
\* by getNextMessage, and is still complete.
C26_Witness ==
    /\ response.route = "chat" /\ response.code = 200
    /\ response.response = "I'm here to help! What would you like"
    /\ response.isOnboardingComplete
    /\ userSessions[response.sessionId].onboarding.state = COMPLETE
    /\ userSessions[response.sessionId].onboarding.previousResponses = 5

\* C27: every accepted chat message to a session that is not complete moves
\* its onboarding state one place forward, so after exactly four accepted
\* messages the session is complete, whatever the messages say; a call of
\* getNextMessage on a session that is not complete leaves the state as it was
\* only in state ask_about_needs with an input that is empty after trim().
C27_FourMessagesComplete ==
    /\ [](\A id \in DOMAIN userSessions :
            userSessions[id].onboarding.previousResponses >= 4
                => userSessions[id].onboarding.state = COMPLETE)
    /\ [][/\ \A message \in ChatMessages, sessionId \in SessionIdInputs :
                ChatReq(message, sessionId)
                    => LET id == response'.sessionId
                           before == IF id \in DOMAIN userSessions
                                     THEN userSessions[id].onboarding.state
                                     ELSE NOT_STARTED
                           after == userSessions'[id].onboarding.state
                       IN before # COMPLETE => Rank(after) = Rank(before) + 1
          /\ \A sessionId \in DOMAIN userSessions, userInput \in DirectInputs :
                (/\ GetNextMessageOn(sessionId, userInput)
                 /\ userSessions[sessionId].onboarding.state # COMPLETE)
                    => (userSessions'[sessionId].onboarding.state =
                            userSessions[sessionId].onboarding.state
                        <=> (/\ userSessions[sessionId].onboarding.state = ASK_ABOUT_NEEDS
                             /\ userInput \in {"", "   "}))]_vars

\* C27 witness: the fourth accepted message of a session was answered from
\* suggest_action and left it complete, while another session, after two
\* accepted messages, is in ask_about_needs.
C27_Witness ==
    /\ response.route = "chat" /\ response.code = 200
    /\ response.response = "How else can I assist you today?"
    /\ response.isOnboardingComplete
    /\ userSessions[response.sessionId].onboarding.previousResponses = 4
    /\ \E id \in DOMAIN userSessions :
          /\ userSessions[id].onboarding.state = ASK_ABOUT_NEEDS
          /\ userSessions[id].onboarding.previousResponses = 2

\* C28: for every chat request, with or without a valid message, res.json is
\* called exactly once, no call is made after a response was sent, and no
\* error is raised after the response.
C28_OneResponse ==
    sends # <<>> => (Len(sends) = 1 /\ ~sends[1].headersSent)

\* C29: getUserSession called with the id of a stored session returns that
\* session, with the same id and onboarding and lastActivity set to the time
\* of the call, stores no new session and generates no id; called with no id
\* or with an id that is not stored it stores exactly one new session, under
\* a newly generated id that differs from the one supplied, with onboarding
\* state not_started; every other session is left as it was.
C29_GetOrCreate ==
    \A sessionId \in SentIds :
        LET got == getUserSession(sessionId)
            stored == DOMAIN userSessions
        IN /\ \A id \in stored \ {sessionId} : got.userSessions[id] = userSessions[id]
           /\ got.userSessions[got.session.id] = got.session
           /\ got.session.lastActivity = now
           /\ IF sessionId \in stored
              THEN /\ got.session.id = sessionId
                   /\ got.session.onboarding = userSessions[sessionId].onboarding
                   /\ DOMAIN got.userSessions = stored
                   /\ got.issued = issued
              ELSE /\ got.session.id # sessionId
                   /\ got.session.id \notin 1 .. issued
                   /\ DOMAIN got.userSessions = stored \cup {got.session.id}
                   /\ got.issued = issued + 1
                   /\ got.session.onboarding.state = NOT_STARTED
                   /\ got.session.onboarding.previousResponses = 0

\* C29 witness: the first session was removed by the cleanup and a later chat
\* request was given a new session under a new id, which a still later
\* request, made with that id, found again: its lastActivity is the time of
\* that request and its onboarding went on from greeting.
C29_Witness ==
    /\ response.route = "chat" /\ response.code = 200
    /\ issued = 2
    /\ DOMAIN userSessions = {2}
    /\ response.sessionId = 2
    /\ userSessions[2].onboarding.previousResponses = 2
    /\ userSessions[2].lastActivity = now
    /\ now = 3600001

\* C30: a run of the cleanup removes exactly the sessions whose lastActivity
\* is more than one hour (3,600,000 ms) before the time of the run and leaves
\* the others as they were; no step removes a session that was active within
\* the last hour, and after a run no stored session has been idle for more
\* than one hour.
C30_CleanupExact ==
    [][/\ \A id \in DOMAIN userSessions :
             id \notin DOMAIN userSessions'
                 => now - userSessions[id].lastActivity > 3600000
       /\ Cleanup
             => /\ DOMAIN userSessions' =
                      {id \in DOMAIN userSessions :
                           now - userSessions[id].lastActivity <= 3600000}
                /\ \A id \in DOMAIN userSessions' :
                      /\ userSessions'[id] = userSessions[id]
                      /\ now' - userSessions'[id].lastActivity <= 3600000]_vars

\* C30 witness: of two sessions the one idle for 3,600,001 ms was removed and
\* the one idle for exactly 3,600,000 ms was kept.
C30_Witness ==
    /\ issued = 2
    /\ DOMAIN userSessions = {2}
    /\ now = 3600001
    /\ now - userSessions[2].lastActivity = 3600000

====
